---- MODULE Spec2Model ----
(***************************************************************************)
(* Model of src/main.py of ChainExplorer: the Dash callback update_graphs, *)
(* fetch_transactions, create_network_graph and draw_plotly_graph.         *)
(*                                                                         *)
(* Numbers.  Python floats are modelled as exact decimals m * 10^x kept in *)
(* normal form (m not divisible by 10, zero is m = 0, x = 0), so dividing  *)
(* by 10**18 moves the exponent and is never the identity.  The inputs     *)
(* used are exactly representable, so binary rounding plays no role.       *)
(* Strings that are parsed (the 'value' and 'tokenDecimal' fields) are     *)
(* sequences of one-character strings.                                     *)
(*                                                                         *)
(* Layout.  nx.kamada_kawai_layout is an opaque library call; coordinates  *)
(* are left out of the figure, everything else draw_plotly_graph computes  *)
(* (edge labels, node texts, node sizes) is kept.                          *)
(***************************************************************************)
EXTENDS Integers, Sequences, FiniteSets, TLC

(***************************************************************************)
(* Bounds of the model.                                                    *)
(***************************************************************************)
MaxTx == 2          \* longest native result list in a request
MaxTokenTx == 1     \* longest token result list in a request
MaxGraphTx == 3     \* longest dataset handed to the graph builder alone

(***************************************************************************)
(* Decimal numbers.                                                        *)
(***************************************************************************)
RECURSIVE Pow10(_)
Pow10(n) == IF n <= 0 THEN 1 ELSE 10 * Pow10(n - 1)

RECURSIVE Norm(_, _)
Norm(m, x) ==
    IF m = 0 THEN [m |-> 0, x |-> 0]
    ELSE IF m % 10 = 0 THEN Norm(m \div 10, x + 1)
    ELSE [m |-> m, x |-> x]

Zero == [m |-> 0, x |-> 0]

Min(a, b) == IF a <= b THEN a ELSE b

\* a + b on floats
Add(a, b) ==
    LET e == Min(a.x, b.x)
    IN  IF a.m = 0 THEN b
        ELSE IF b.m = 0 THEN a
        ELSE Norm(a.m * Pow10(a.x - e) + b.m * Pow10(b.x - e), e)

\* a <= b on floats
LessEq(a, b) ==
    LET e == Min(a.x, b.x)
    IN  IF a.m = 0 THEN b.m >= 0
        ELSE IF b.m = 0 THEN a.m <= 0
        ELSE a.m * Pow10(a.x - e) <= b.m * Pow10(b.x - e)

\* a / 10**d
Div10(a, d) == Norm(a.m, a.x - d)

(***************************************************************************)
(* Cells of a DataFrame column: a string, a float, an int or NaN.          *)
(***************************************************************************)
Str(s) == [t |-> "str", s |-> s, n |-> Zero]
FloatCell(n) == [t |-> "float", s |-> <<>>, n |-> n]
IntCell(k) == [t |-> "int", s |-> <<>>, n |-> [m |-> k, x |-> 0]]
NaN == [t |-> "nan", s |-> <<>>, n |-> Zero]

Digits == {"0", "1", "2", "3", "4", "5", "6", "7", "8", "9"}

Digit(c) ==
    CASE c = "0" -> 0 [] c = "1" -> 1 [] c = "2" -> 2 [] c = "3" -> 3
      [] c = "4" -> 4 [] c = "5" -> 5 [] c = "6" -> 6 [] c = "7" -> 7
      [] c = "8" -> 8 [] c = "9" -> 9

RECURSIVE TrailingZeros(_)
TrailingZeros(s) ==
    IF s = <<>> \/ s[Len(s)] # "0" THEN 0
    ELSE 1 + TrailingZeros(SubSeq(s, 1, Len(s) - 1))

RECURSIVE ToInt(_)
ToInt(s) ==
    IF s = <<>> THEN 0
    ELSE 10 * ToInt(SubSeq(s, 1, Len(s) - 1)) + Digit(s[Len(s)])

IsDigits(s) == s # <<>> /\ \A i \in 1..Len(s) : s[i] \in Digits

\* Python float(v): [ok |-> FALSE] stands for ValueError.
float(c) ==
    IF c.t = "str" THEN
        LET neg  == c.s # <<>> /\ c.s[1] = "-"
            body == IF neg THEN Tail(c.s) ELSE c.s
            z    == TrailingZeros(body)
            mant == ToInt(SubSeq(body, 1, Len(body) - z))
        IN  IF IsDigits(body)
            THEN [ok |-> TRUE, n |-> Norm(IF neg THEN 0 - mant ELSE mant, z)]
            ELSE [ok |-> FALSE, n |-> Zero]
    ELSE IF c.t = "float" THEN [ok |-> TRUE, n |-> c.n]
    ELSE IF c.t = "int" THEN [ok |-> TRUE, n |-> Norm(c.n.m, 0)]
    ELSE [ok |-> FALSE, n |-> Zero]

\* Python int(v) / astype(int) on one cell: [ok |-> FALSE] stands for ValueError.
int(c) ==
    IF c.t = "str" THEN
        IF IsDigits(c.s) THEN [ok |-> TRUE, k |-> ToInt(c.s)]
        ELSE [ok |-> FALSE, k |-> 0]
    ELSE IF c.t = "int" THEN [ok |-> TRUE, k |-> c.n.m]
    ELSE [ok |-> FALSE, k |-> 0]

(***************************************************************************)
(* JSON records of the ledger-query API and pandas DataFrames.             *)
(* A JSON record carries the set of keys it has; a DataFrame built from a  *)
(* list of records has the union of their keys as columns and NaN in the   *)
(* cells a record has no key for.                                          *)
(***************************************************************************)
NaT == [day |-> 0 - 1, sec |-> 0]

\* pd.to_datetime(seconds, unit='s'): calendar day and second of the day
to_datetime(ts) == [day |-> ts \div 86400, sec |-> ts % 86400]

\* t1 < t2 on calendar times
TimeLess(t1, t2) == t1.day < t2.day \/ (t1.day = t2.day /\ t1.sec < t2.sec)

EmptyFrame == [columns |-> {}, rows |-> <<>>]

\* pd.DataFrame(result)
DataFrame(result) ==
    IF result = <<>> THEN EmptyFrame
    ELSE [columns |-> UNION {result[i].keys : i \in 1..Len(result)},
          rows |-> [i \in 1..Len(result) |->
                     [from |-> result[i].from,
                      to |-> result[i].to,
                      value |-> IF "value" \in result[i].keys
                                THEN Str(result[i].value) ELSE NaN,
                      timeStamp |-> result[i].timeStamp,
                      tokenDecimal |-> IF "tokenDecimal" \in result[i].keys
                                       THEN Str(result[i].tokenDecimal) ELSE NaN,
                      time |-> NaT]]]

\* df.empty
empty(df) == df.rows = <<>>

(***************************************************************************)
(* networkx Graph: nodes in insertion order, one weight per unordered pair *)
(* of nodes (a one-element set is a self-loop).                            *)
(***************************************************************************)
EmptyGraph == [nodes |-> <<>>, weight |-> [e \in {} |-> Zero]]

Range(s) == {s[i] : i \in 1..Len(s)}

AddNode(nodes, u) == IF u \in Range(nodes) THEN nodes ELSE Append(nodes, u)

\* a builder that adds the new value to the weight the pair already has
add_edge_sum(G, u, v, w) ==
    [nodes  |-> AddNode(AddNode(G.nodes, u), v),
     weight |-> [e \in DOMAIN G.weight \cup {{u, v}} |->
                   IF e = {u, v}
                   THEN (IF e \in DOMAIN G.weight THEN Add(G.weight[e], w) ELSE w)
                   ELSE G.weight[e]]]

\* G.add_edge(u, v, weight=w)
add_edge(G, u, v, w) ==
    [nodes  |-> AddNode(AddNode(G.nodes, u), v),
     weight |-> [e \in DOMAIN G.weight \cup {{u, v}} |->
                   IF e = {u, v} THEN w ELSE G.weight[e]]]

\* nx.degree(G, node): a self-loop counts twice
degree(G, node) ==
    Cardinality({e \in DOMAIN G.weight : node \in e})
      + (IF {node} \in DOMAIN G.weight THEN 1 ELSE 0)

\* line 115: the value of one row in major units; [ok |-> FALSE] is a raised
\* ValueError
tx_value(tx, token) ==
    LET v == float(tx.value)
        d == int(tx.tokenDecimal)
    IN  IF token
        THEN IF v.ok /\ d.ok THEN [ok |-> TRUE, n |-> Div10(v.n, d.k)]
             ELSE [ok |-> FALSE, n |-> Zero]
        ELSE IF v.ok THEN [ok |-> TRUE, n |-> Div10(v.n, 18)]
             ELSE [ok |-> FALSE, n |-> Zero]

\* a builder that only drops the transactions of value exactly 0
keeps_tx_nonzero(value) == value.m # 0

\* value > 0 on line 116
keeps_tx(value) == value.m > 0

\* the loop of create_network_graph over rows 1..k, from graph G
RECURSIVE graph_loop(_, _, _)
graph_loop(rows, k, token) ==
    IF k = 0 THEN [ok |-> TRUE, G |-> EmptyGraph]
    ELSE LET prev == graph_loop(rows, k - 1, token)
             tx   == rows[k]
             val  == tx_value(tx, token)
         IN  IF ~prev.ok \/ ~val.ok THEN [ok |-> FALSE, G |-> EmptyGraph]
             ELSE IF keeps_tx(val.n)
                  THEN [ok |-> TRUE, G |-> add_edge(prev.G, tx.from, tx.to, val.n)]
                  ELSE prev

create_network_graph(df, token) == graph_loop(df.rows, Len(df.rows), token)

(***************************************************************************)
(* draw_plotly_graph.  Sizes are in thousandths; log is the natural        *)
(* logarithm rounded down to thousandths.                                  *)
(***************************************************************************)
max_size == 25
base_size == 10
center_size == 15

LogTable == <<0, 693, 1098, 1386, 1609, 1791, 1945, 2079, 2197, 2302, 2397, 2484>>

log(n) == IF n <= Len(LogTable) THEN LogTable[n] ELSE LogTable[Len(LogTable)] + n

\* a styler that sizes the focal node by its degree like any other node
node_size_by_degree(G, node, center_node) ==
    Min(base_size * 1000 + log(degree(G, node) + 1), max_size * 1000)

node_size(G, node, center_node) ==
    IF node = center_node THEN center_size * 1000
    ELSE Min(base_size * 1000 + log(degree(G, node) + 1), max_size * 1000)

\* f"{w:.4f}": the number of ten-thousandths, round half to even
format4(w) ==
    IF w.x >= 0 - 4 THEN w.m * Pow10(w.x + 4)
    ELSE IF 0 - 4 - w.x > 9 THEN 0
    ELSE LET p == Pow10(0 - 4 - w.x)
             q == w.m \div p
             r == w.m % p
         IN  IF 2 * r > p \/ (2 * r = p /\ q % 2 = 1) THEN q + 1 ELSE q

NoFigure ==
    [kind |-> "none", annotations |-> [e \in {} |-> [text |-> 0, unit |-> ""]],
     node_text |-> <<>>, node_sizes |-> <<>>, x |-> <<>>, y |-> <<>>]

draw_plotly_graph(G, is_token, center_node) ==
    [kind |-> "network",
     annotations |-> [e \in DOMAIN G.weight |->
                        [text |-> format4(G.weight[e]),
                         unit |-> IF is_token THEN "TOKENS" ELSE "ETH"]],
     node_text  |-> G.nodes,
     node_sizes |-> [i \in 1..Len(G.nodes) |-> node_size(G, G.nodes[i], center_node)],
     x |-> <<>>, y |-> <<>>]

(***************************************************************************)
(* HTTP responses of the ledger-query API.                                 *)
(***************************************************************************)
\* requests.get raised (transport failure)
TransportError == [kind |-> "error", status_code |-> 0, json_ok |-> FALSE, result |-> <<>>]

\* a response with a status code; json_ok = FALSE: .json() raises
Response(code, ok, result) ==
    [kind |-> "response", status_code |-> code, json_ok |-> ok, result |-> result]

\* lines 89-94 and 96-98: the frame one category gives, before the astype of
\* line 100; raised = an exception left the try body
fetch_category(resp) ==
    IF resp.kind = "error" THEN [raised |-> TRUE, df |-> EmptyFrame]
    ELSE IF resp.status_code = 200
         THEN IF resp.json_ok
              THEN [raised |-> FALSE, df |-> DataFrame(resp.result)]
              ELSE [raised |-> TRUE, df |-> EmptyFrame]
         ELSE [raised |-> FALSE, df |-> EmptyFrame]

\* line 100: erc20_transactions['tokenDecimal'].astype(int); KeyError without
\* the column, ValueError on a NaN or non-numeric cell
astype_int(df) ==
    IF "tokenDecimal" \notin df.columns
       \/ \E i \in 1..Len(df.rows) : ~int(df.rows[i].tokenDecimal).ok
    THEN [raised |-> TRUE, df |-> EmptyFrame]
    ELSE [raised |-> FALSE,
          df |-> [df EXCEPT !.rows =
                    [i \in 1..Len(df.rows) |->
                       [df.rows[i] EXCEPT !.tokenDecimal =
                          IntCell(int(df.rows[i].tokenDecimal).k)]]]]

\* the ERC20 half of the try body (lines 96-103)
fetch_erc20(resp) ==
    LET c == fetch_category(resp)
    IN  IF ~c.raised /\ resp.status_code = 200 THEN astype_int(c.df) ELSE c

fetch_transactions(eth_resp, erc20_resp) ==
    LET eth   == fetch_category(eth_resp)
        erc20 == fetch_erc20(erc20_resp)
    IN  IF eth.raised \/ erc20.raised
        THEN [eth |-> EmptyFrame, erc20 |-> EmptyFrame]
        ELSE [eth |-> eth.df, erc20 |-> erc20.df]

(***************************************************************************)
(* Pieces of update_graphs.                                                *)
(***************************************************************************)
Div(text) == [type |-> "Div", children |-> text, figure |-> NoFigure]
Graph(fig) == [type |-> "Graph", children |-> "", figure |-> fig]

NoDataEth == "No data available for Ethereum transactions"
NoDataErc20 == "No data available for ERC20 transactions"

\* a filter that compares the values as numbers, not as strings
hide_zero_rows_numeric(df) ==
    [df EXCEPT !.rows =
        SelectSeq(df.rows, LAMBDA r : ~(float(r.value).ok /\ float(r.value).n = Zero))]

\* df[df['value'] != '0'] (lines 46, 47)
hide_zero_rows(df) ==
    [df EXCEPT !.rows = SelectSeq(df.rows, LAMBDA r : r.value # Str(<<"0">>))]

\* a conversion applied to values that are in ether already
to_ether_twice(df) ==
    [columns |-> df.columns \cup {"time"},
     rows |-> [i \in 1..Len(df.rows) |->
                 [df.rows[i] EXCEPT
                    !.time  = to_datetime(df.rows[i].timeStamp),
                    !.value = FloatCell(Div10(float(df.rows[i].value).n, 36))]]]

\* lines 64, 66: the frame with its 'time' column and its 'value' column in ether
to_ether(df) ==
    [columns |-> df.columns \cup {"time"},
     rows |-> [i \in 1..Len(df.rows) |->
                 [df.rows[i] EXCEPT
                    !.time  = to_datetime(df.rows[i].timeStamp),
                    !.value = FloatCell(Div10(float(df.rows[i].value).n, 18))]]]

\* the distinct keys of groupby('time'), ascending
RECURSIVE sorted_times(_)
sorted_times(T) ==
    IF T = {} THEN <<>>
    ELSE LET lo == CHOOSE t \in T : \A u \in T : u = t \/ TimeLess(t, u)
         IN  <<lo>> \o sorted_times(T \ {lo})

\* the sum of 'value' over the rows 1..k whose time is t
RECURSIVE group_sum(_, _, _)
group_sum(rows, k, t) ==
    IF k = 0 THEN Zero
    ELSE IF rows[k].time = t
         THEN Add(group_sum(rows, k - 1, t), rows[k].value.n)
         ELSE group_sum(rows, k - 1, t)

\* a series of the per-timestamp sums, not accumulated
running_none(s, k) == IF k = 0 THEN Zero ELSE s[k]

\* cumsum over the first k entries of a series
RECURSIVE cumsum(_, _)
cumsum(s, k) == IF k = 0 THEN Zero ELSE Add(cumsum(s, k - 1), s[k])

\* line 67: transactions.groupby('time')['value'].sum().cumsum()
time_series(df) ==
    LET idx  == sorted_times({df.rows[i].time : i \in 1..Len(df.rows)})
        sums == [j \in 1..Len(idx) |-> group_sum(df.rows, Len(df.rows), idx[j])]
    IN  [index |-> idx, values |-> [j \in 1..Len(idx) |-> cumsum(sums, j)]]

\* line 70
series_figure(ts) ==
    [NoFigure EXCEPT !.kind = "series", !.x = ts.index, !.y = ts.values]

(***************************************************************************)
(* Inputs.                                                                 *)
(***************************************************************************)
Zeros(n) == [i \in 1..n |-> "0"]

\* k * 10^18 of the smallest unit, as the API's decimal string
Wei(k) == <<k>> \o Zeros(18)

SeqsUpTo(S, n) == UNION {[1..k -> S] : k \in 0..n}

NativeRecord(f, t, v, ts) ==
    [keys |-> {"from", "to", "value", "timeStamp"},
     from |-> f, to |-> t, value |-> v, timeStamp |-> ts, tokenDecimal |-> <<>>]

TokenRecord(f, t, v, ts, d) ==
    [keys |-> {"from", "to", "value", "timeStamp", "tokenDecimal"},
     from |-> f, to |-> t, value |-> v, timeStamp |-> ts, tokenDecimal |-> d]

\* a token record the API sent without its tokenDecimal key
WithoutDecimal(r) == [r EXCEPT !.keys = r.keys \ {"tokenDecimal"}, !.tokenDecimal = <<>>]

NativeRecords ==
    {NativeRecord(p[1], p[2], v, ts) :
        p \in {<<"0xA", "0xB">>, <<"0xB", "0xC">>},
        v \in {<<"0">>, <<"0", "0">>, Wei("1"), <<"a", "b", "c">>},
        ts \in {1000, 86401}}

TokenRecords ==
    LET full == {TokenRecord("0xA", "0xB", v, 1000, d) :
                    v \in {<<"0">>, <<"1", "0", "0", "0">>},
                    d \in {<<"3">>, <<"x">>}}
    IN  full \cup {WithoutDecimal(TokenRecord("0xA", "0xB", <<"1", "0", "0", "0">>, 1000, <<"3">>))}

Responses(records, n) ==
    {TransportError, Response(500, TRUE, <<>>), Response(200, FALSE, <<>>)}
      \cup {Response(200, TRUE, r) : r \in SeqsUpTo(records, n)}

(***************************************************************************)
(* State.  pc is the position of the callback update_graphs; the other     *)
(* variables are its parameters, its locals and what it returned or        *)
(* raised.  The g_ variables are one call of create_network_graph followed *)
(* by draw_plotly_graph on a dataset of its own.                           *)
(***************************************************************************)
VARIABLES pc, n_clicks, address, hide_zero, eth_response, erc20_response,
          transactions, erc20_transactions, eth_graph, erc20_graph,
          eth_graph_div, erc20_graph_div, out, raised,
          g_pc, g_in, g_token, g_center, g_graph, g_fig

req_vars == <<pc, n_clicks, address, hide_zero, eth_response, erc20_response,
              transactions, erc20_transactions, eth_graph, erc20_graph,
              eth_graph_div, erc20_graph_div, out, raised>>
g_vars == <<g_pc, g_in, g_token, g_center, g_graph, g_fig>>
vars == <<req_vars, g_vars>>

NoUnit == Div("")

IdleRequest ==
    /\ pc = "idle"
    /\ n_clicks = 0
    /\ address = ""
    /\ hide_zero = {}
    /\ eth_response = TransportError
    /\ erc20_response = TransportError
    /\ transactions = EmptyFrame
    /\ erc20_transactions = EmptyFrame
    /\ eth_graph = EmptyGraph
    /\ erc20_graph = EmptyGraph
    /\ eth_graph_div = NoUnit
    /\ erc20_graph_div = NoUnit
    /\ out = <<>>
    /\ raised = ""

IdleGraph ==
    /\ g_pc = "idle"
    /\ g_in = EmptyFrame
    /\ g_token = FALSE
    /\ g_center = ""
    /\ g_graph = EmptyGraph
    /\ g_fig = NoFigure

Init == IdleRequest /\ IdleGraph

(***************************************************************************)
(* update_graphs, lines 42-82.                                             *)
(***************************************************************************)
\* the callback fires without a click (n_clicks = 0): line 82
update_graphs_untriggered ==
    /\ pc = "idle"
    /\ \E addr \in {"0xA"}, hz \in {{}, {"hide"}} :
         /\ address' = addr
         /\ hide_zero' = hz
    /\ n_clicks' = 0
    /\ out' = <<Div(""), Div(""), Div("")>>
    /\ pc' = "returned"
    /\ UNCHANGED <<eth_response, erc20_response, transactions, erc20_transactions,
                   eth_graph, erc20_graph, eth_graph_div, erc20_graph_div, raised>>
    /\ UNCHANGED g_vars

\* lines 43-44: a click; the two categories are fetched
update_graphs_fetch ==
    /\ pc = "idle"
    /\ \E addr \in {"0xA"}, hz \in {{}, {"hide"}},
          r1 \in Responses(NativeRecords, MaxTx),
          r2 \in Responses(TokenRecords, MaxTokenTx) :
         /\ address' = addr
         /\ hide_zero' = hz
         /\ eth_response' = r1
         /\ erc20_response' = r2
         /\ transactions' = fetch_transactions(r1, r2).eth
         /\ erc20_transactions' = fetch_transactions(r1, r2).erc20
    /\ n_clicks' = 1
    /\ pc' = "fetched"
    /\ UNCHANGED <<eth_graph, erc20_graph, eth_graph_div, erc20_graph_div, out, raised>>
    /\ UNCHANGED g_vars

\* lines 45-47
update_graphs_hide_zero ==
    /\ pc = "fetched"
    /\ IF "hide" \in hide_zero
       THEN IF "value" \notin transactions.columns
               \/ "value" \notin erc20_transactions.columns
            THEN /\ raised' = "KeyError"
                 /\ pc' = "raised"
                 /\ UNCHANGED <<transactions, erc20_transactions>>
            ELSE /\ transactions' = hide_zero_rows(transactions)
                 /\ erc20_transactions' = hide_zero_rows(erc20_transactions)
                 /\ pc' = "filtered"
                 /\ UNCHANGED raised
       ELSE /\ pc' = "filtered"
            /\ UNCHANGED <<transactions, erc20_transactions, raised>>
    /\ UNCHANGED <<n_clicks, address, hide_zero, eth_response, erc20_response,
                   eth_graph, erc20_graph, eth_graph_div, erc20_graph_div, out>>
    /\ UNCHANGED g_vars

\* lines 49-55
update_graphs_eth ==
    /\ pc = "filtered"
    /\ IF empty(transactions) /\ empty(erc20_transactions)
       THEN /\ out' = <<Div(NoDataEth), Div(NoDataErc20)>>
            /\ pc' = "returned"
            /\ UNCHANGED <<eth_graph, eth_graph_div, raised>>
       ELSE IF empty(transactions)
       THEN /\ eth_graph_div' = Div(NoDataEth)
            /\ pc' = "eth_done"
            /\ UNCHANGED <<eth_graph, out, raised>>
       ELSE LET r == create_network_graph(transactions, FALSE)
            IN  IF r.ok
                THEN /\ eth_graph' = r.G
                     /\ eth_graph_div' = Graph(draw_plotly_graph(r.G, FALSE, address))
                     /\ pc' = "eth_done"
                     /\ UNCHANGED <<out, raised>>
                ELSE /\ raised' = "ValueError"
                     /\ pc' = "raised"
                     /\ UNCHANGED <<eth_graph, eth_graph_div, out>>
    /\ UNCHANGED <<n_clicks, address, hide_zero, eth_response, erc20_response,
                   transactions, erc20_transactions, erc20_graph, erc20_graph_div>>
    /\ UNCHANGED g_vars

\* lines 57-61
update_graphs_erc20 ==
    /\ pc = "eth_done"
    /\ IF empty(erc20_transactions)
       THEN /\ erc20_graph_div' = Div(NoDataErc20)
            /\ pc' = "erc20_done"
            /\ UNCHANGED <<erc20_graph, raised>>
       ELSE LET r == create_network_graph(erc20_transactions, TRUE)
            IN  IF r.ok
                THEN /\ erc20_graph' = r.G
                     /\ erc20_graph_div' = Graph(draw_plotly_graph(r.G, TRUE, address))
                     /\ pc' = "erc20_done"
                     /\ UNCHANGED raised
                ELSE /\ raised' = "ValueError"
                     /\ pc' = "raised"
                     /\ UNCHANGED <<erc20_graph, erc20_graph_div>>
    /\ UNCHANGED <<n_clicks, address, hide_zero, eth_response, erc20_response,
                   transactions, erc20_transactions, eth_graph, eth_graph_div, out>>
    /\ UNCHANGED g_vars

\* lines 63-80
update_graphs_time_series ==
    /\ pc = "erc20_done"
    /\ IF "timeStamp" \notin transactions.columns \/ "value" \notin transactions.columns
       THEN /\ raised' = "KeyError"
            /\ pc' = "raised"
            /\ UNCHANGED <<transactions, out>>
       ELSE IF \E i \in 1..Len(transactions.rows) : ~float(transactions.rows[i].value).ok
       THEN /\ raised' = "ValueError"
            /\ pc' = "raised"
            /\ UNCHANGED <<transactions, out>>
       ELSE /\ transactions' = to_ether(transactions)
            /\ out' = <<eth_graph_div, erc20_graph_div,
                        Graph(series_figure(time_series(to_ether(transactions))))>>
            /\ pc' = "returned"
            /\ UNCHANGED raised
    /\ UNCHANGED <<n_clicks, address, hide_zero, eth_response, erc20_response,
                   erc20_transactions, eth_graph, erc20_graph,
                   eth_graph_div, erc20_graph_div>>
    /\ UNCHANGED g_vars

\* the request is over; nothing of it is kept for the next one
request_end ==
    /\ pc \in {"returned", "raised"}
    /\ pc' = "idle"
    /\ n_clicks' = 0
    /\ address' = ""
    /\ hide_zero' = {}
    /\ eth_response' = TransportError
    /\ erc20_response' = TransportError
    /\ transactions' = EmptyFrame
    /\ erc20_transactions' = EmptyFrame
    /\ eth_graph' = EmptyGraph
    /\ erc20_graph' = EmptyGraph
    /\ eth_graph_div' = NoUnit
    /\ erc20_graph_div' = NoUnit
    /\ out' = <<>>
    /\ raised' = ""
    /\ UNCHANGED g_vars

Next ==
    \/ update_graphs_untriggered
    \/ update_graphs_fetch
    \/ update_graphs_hide_zero
    \/ update_graphs_eth
    \/ update_graphs_erc20
    \/ update_graphs_time_series
    \/ request_end

Spec == Init /\ [][Next]_vars

(***************************************************************************)
(* One call of create_network_graph and draw_plotly_graph on a dataset as  *)
(* update_graphs hands it over: string values, and for the token category  *)
(* the integer tokenDecimal column fetch_transactions leaves.              *)
(***************************************************************************)
GraphNativeRecords ==
    {NativeRecord(p[1], p[2], v, 1000) :
        p \in {<<"0xA", "0xB">>, <<"0xB", "0xA">>, <<"0xB", "0xC">>, <<"0xB", "0xB">>},
        v \in {<<"0">>, Wei("1"), Wei("2")}}
      \cup {NativeRecord("0xA", "0xB", <<"-">> \o Wei("1"), 1000)}

GraphTokenRecords ==
    {TokenRecord(p[1], p[2], v, 1000, d) :
        p \in {<<"0xA", "0xB">>, <<"0xB", "0xC">>},
        v \in {<<"0">>, <<"1", "0", "0", "0">>},
        d \in {<<"2">>, <<"3">>}}
      \cup {TokenRecord("0xA", "0xB", <<"a", "b", "c">>, 1000, <<"3">>)}

GraphNativeFrames ==
    {DataFrame(r) : r \in SeqsUpTo(GraphNativeRecords, MaxGraphTx) \ {<<>>}}

GraphTokenFrames ==
    {astype_int(DataFrame(r)).df : r \in SeqsUpTo(GraphTokenRecords, MaxGraphTx) \ {<<>>}}

\* update_graphs calls create_network_graph on a non-empty frame (lines 54, 60)
graph_call ==
    /\ g_pc = "idle"
    /\ \E token \in BOOLEAN, center \in {"0xA", "0xB"} :
         /\ g_token' = token
         /\ g_center' = center
         /\ g_in' \in (IF token THEN GraphTokenFrames ELSE GraphNativeFrames)
    /\ g_pc' = "called"
    /\ UNCHANGED <<g_graph, g_fig>>
    /\ UNCHANGED req_vars

\* create_network_graph, lines 112-122
graph_build ==
    /\ g_pc = "called"
    /\ LET r == create_network_graph(g_in, g_token)
       IN  IF r.ok
           THEN /\ g_graph' = r.G
                /\ g_pc' = "built"
           ELSE /\ g_pc' = "raised"
                /\ UNCHANGED g_graph
    /\ UNCHANGED <<g_in, g_token, g_center, g_fig>>
    /\ UNCHANGED req_vars

\* draw_plotly_graph, lines 124-184
graph_draw ==
    /\ g_pc = "built"
    /\ g_fig' = draw_plotly_graph(g_graph, g_token, g_center)
    /\ g_pc' = "drawn"
    /\ UNCHANGED <<g_in, g_token, g_center, g_graph>>
    /\ UNCHANGED req_vars

graph_end ==
    /\ g_pc \in {"drawn", "raised"}
    /\ g_pc' = "idle"
    /\ g_in' = EmptyFrame
    /\ g_token' = FALSE
    /\ g_center' = ""
    /\ g_graph' = EmptyGraph
    /\ g_fig' = NoFigure
    /\ UNCHANGED req_vars

NextGraph == graph_call \/ graph_build \/ graph_draw \/ graph_end

SpecGraph == Init /\ [][NextGraph]_vars

(***************************************************************************)
(* Properties of the graph builder and the styler (under SpecGraph).       *)
(***************************************************************************)
Addresses == {"0xA", "0xB", "0xC"}

GraphDone == g_pc \in {"built", "drawn"}

\* the value in major units of row i of the dataset handed to the builder
RowValue(i) == tx_value(g_in.rows[i], g_token).n

\* the rows between a and b, in either direction, whose value is > 0
PositiveRows(a, b) ==
    {i \in 1..Len(g_in.rows) :
        {g_in.rows[i].from, g_in.rows[i].to} = {a, b} /\ RowValue(i).m > 0}

Last(S) == CHOOSE i \in S : \A j \in S : j <= i

\* C1: the graph create_network_graph returns has no edge of weight <= 0 and
\* no node outside every edge; an address that occurs only in transactions
\* of value <= 0 is not a node.
C1_NoDeadEdgeNoLoneNode ==
    GraphDone =>
        /\ \A e \in DOMAIN g_graph.weight : g_graph.weight[e].m > 0
        /\ \A i \in 1..Len(g_graph.nodes) :
              \E e \in DOMAIN g_graph.weight : g_graph.nodes[i] \in e
        /\ \A a \in Addresses :
              (\A b \in Addresses : PositiveRows(a, b) = {})
                 => a \notin Range(g_graph.nodes)

\* scenario B: A->B of value 0 then B->C of 2 * 10^18 gives the one edge B-C
\* of weight 2.0 and no node A
C1_Witness ==
    /\ g_pc = "built"
    /\ ~g_token
    /\ Len(g_in.rows) = 2
    /\ g_in.rows[1].from = "0xA" /\ g_in.rows[1].to = "0xB"
    /\ g_in.rows[1].value = Str(<<"0">>)
    /\ g_in.rows[2].from = "0xB" /\ g_in.rows[2].to = "0xC"
    /\ g_in.rows[2].value = Str(Wei("2"))
    /\ g_graph.nodes = <<"0xB", "0xC">>
    /\ DOMAIN g_graph.weight = {{"0xB", "0xC"}}
    /\ g_graph.weight[{"0xB", "0xC"}] = [m |-> 2, x |-> 0]

\* C2: each unordered pair of addresses has an edge exactly when some
\* transaction between them (either direction) has value > 0, and its weight
\* is the major-unit value of the last such transaction in input order; a
\* later transaction of value <= 0 leaves it alone.
C2_LastWriteWins ==
    GraphDone =>
        \A a \in Addresses, b \in Addresses :
            IF PositiveRows(a, b) = {}
            THEN {a, b} \notin DOMAIN g_graph.weight
            ELSE /\ {a, b} \in DOMAIN g_graph.weight
                 /\ g_graph.weight[{a, b}] = RowValue(Last(PositiveRows(a, b)))

\* A->B of 1.0, then B->A of 2.0, then A->B of 0: the edge A-B weighs 2.0
C2_Witness ==
    /\ g_pc = "built"
    /\ ~g_token
    /\ Len(g_in.rows) = 3
    /\ g_in.rows[1].from = "0xA" /\ g_in.rows[1].to = "0xB"
    /\ g_in.rows[1].value = Str(Wei("1"))
    /\ g_in.rows[2].from = "0xB" /\ g_in.rows[2].to = "0xA"
    /\ g_in.rows[2].value = Str(Wei("2"))
    /\ g_in.rows[3].from = "0xA" /\ g_in.rows[3].to = "0xB"
    /\ g_in.rows[3].value = Str(<<"0">>)
    /\ DOMAIN g_graph.weight = {{"0xA", "0xB"}}
    /\ g_graph.weight[{"0xA", "0xB"}] = [m |-> 2, x |-> 0]

\* the number of edge ends at a node
EdgeEnds(node) ==
    Cardinality({e \in DOMAIN g_graph.weight : node \in e /\ e # {node}})
      + (IF {node} \in DOMAIN g_graph.weight THEN 2 ELSE 0)

\* C7: the focal node's marker has size centerSize whatever its degree; any
\* other node has size min(baseSize + ln(degree + 1), maxSize), which never
\* exceeds maxSize and never decreases as the degree grows.
C7_NodeSizes ==
    g_pc = "drawn" =>
        /\ Len(g_fig.node_sizes) = Len(g_graph.nodes)
        /\ \A i \in 1..Len(g_graph.nodes) :
              IF g_graph.nodes[i] = g_center
              THEN g_fig.node_sizes[i] = center_size * 1000
              ELSE /\ g_fig.node_sizes[i] =
                        Min(base_size * 1000 + LogTable[EdgeEnds(g_graph.nodes[i]) + 1],
                            max_size * 1000)
                   /\ g_fig.node_sizes[i] <= max_size * 1000
        /\ \A i \in 1..Len(g_graph.nodes), j \in 1..Len(g_graph.nodes) :
              (/\ g_graph.nodes[i] # g_center
               /\ g_graph.nodes[j] # g_center
               /\ EdgeEnds(g_graph.nodes[i]) <= EdgeEnds(g_graph.nodes[j]))
                 => g_fig.node_sizes[i] <= g_fig.node_sizes[j]

\* the focal node B has three edge ends and size 15; A has one and C has one
C7_Witness ==
    /\ g_pc = "drawn"
    /\ g_center = "0xB"
    /\ EdgeEnds("0xB") >= 3
    /\ \E i \in 1..Len(g_graph.nodes) :
          g_graph.nodes[i] = "0xB" /\ g_fig.node_sizes[i] = center_size * 1000
    /\ \E i \in 1..Len(g_graph.nodes) :
          /\ g_graph.nodes[i] = "0xA"
          /\ g_fig.node_sizes[i] = base_size * 1000 + 693

(***************************************************************************)
(* Properties of one request (under Spec).                                 *)
(***************************************************************************)
Triggered == n_clicks > 0

\* the request returned the three units of line 80
ReturnedThree == pc = "returned" /\ Triggered /\ Len(out) = 3

\* what fetch_transactions gave this request
Fetched == fetch_transactions(eth_response, erc20_response)

\* the rows that pass the hide-zero option of this request
Kept(rows) ==
    IF "hide" \in hide_zero
    THEN SelectSeq(rows, LAMBDA r : r.value.s # <<"0">>)
    ELSE rows

KeptEth == Kept(Fetched.eth.rows)
KeptErc20 == Kept(Fetched.erc20.rows)

\* the raw value of a kept native row, and the same in ether
RawValue(i) == float(KeptEth[i].value).n
Ether(i) == Div10(RawValue(i), 18)
RowTime(i) == to_datetime(KeptEth[i].timeStamp)

\* n * 10^18
Times18(n) == Norm(n.m, n.x + 18)

\* the sum in ether of the kept native rows 1..k whose time is at most t
RECURSIVE SumUpTo(_, _)
SumUpTo(k, t) ==
    IF k = 0 THEN Zero
    ELSE IF RowTime(k) = t \/ TimeLess(RowTime(k), t)
         THEN Add(SumUpTo(k - 1, t), Ether(k))
         ELSE SumUpTo(k - 1, t)

\* the sum of the raw values of the kept native rows 1..k
RECURSIVE RawSum(_)
RawSum(k) == IF k = 0 THEN Zero ELSE Add(RawSum(k - 1), RawValue(k))

\* the pairs of the rows whose value in major units is > 0
PositivePairs(rows, token) ==
    {{rows[i].from, rows[i].to} :
        i \in {j \in 1..Len(rows) : tx_value(rows[j], token).n.m > 0}}

\* C3: a triggered request returns three units, each a chart when its
\* dataset is non-empty and a "no data" placeholder when it is empty.
C3_ThreeUnits ==
    (pc = "returned" /\ Triggered) =>
        /\ Len(out) = 3
        /\ out[1].type = (IF empty(transactions) THEN "Div" ELSE "Graph")
        /\ out[2].type = (IF empty(erc20_transactions) THEN "Div" ELSE "Graph")
        /\ out[3].type = (IF empty(transactions) THEN "Div" ELSE "Graph")

\* a response with status 200 whose result list has records
HasRecords(resp) ==
    resp.kind = "response" /\ resp.status_code = 200 /\ resp.json_ok /\ resp.result # <<>>

\* every record of the response has a numeric tokenDecimal
DecimalsOk(resp) ==
    \A i \in 1..Len(resp.result) :
        "tokenDecimal" \in resp.result[i].keys /\ IsDigits(resp.result[i].tokenDecimal)

\* C4: a category answered with status 200 and records is returned with all
\* its records, whatever happened to the other category.
C4_CategoriesIndependent ==
    pc = "fetched" =>
        /\ HasRecords(eth_response)
              => Len(transactions.rows) = Len(eth_response.result)
        /\ (HasRecords(erc20_response) /\ DecimalsOk(erc20_response))
              => Len(erc20_transactions.rows) = Len(erc20_response.result)

C6_TimeSeries ==
    /\ (pc = "raised" /\ erc20_graph_div # NoUnit) => empty(transactions)
    /\ (ReturnedThree /\ ~empty(transactions)) =>
           LET x == out[3].figure.x
               y == out[3].figure.y
           IN  /\ Len(y) = Len(x)
               /\ Range(x) = {RowTime(i) : i \in 1..Len(KeptEth)}
               /\ \A j \in 1..(Len(x) - 1) : TimeLess(x[j], x[j + 1])
               /\ \A j \in 1..Len(x) : y[j] = SumUpTo(Len(KeptEth), x[j])
               /\ (\A i \in 1..Len(KeptEth) : Ether(i).m >= 0)
                     => \A j \in 1..(Len(x) - 1) : LessEq(y[j], y[j + 1])

\* two transactions of 10^18 arrive latest first: two points, 1.0 then 2.0
C6_Witness ==
    /\ ReturnedThree
    /\ Len(eth_response.result) = 2
    /\ eth_response.result[1].timeStamp = 86401
    /\ eth_response.result[2].timeStamp = 1000
    /\ out[3].figure.x = <<to_datetime(1000), to_datetime(86401)>>
    /\ out[3].figure.y = <<[m |-> 1, x |-> 0], [m |-> 2, x |-> 0]>>

\* C8: a non-empty dataset none of whose transactions has value > 0 gives a
\* "no data" placeholder for its category.
C8_EmptyGraphPlaceholder ==
    /\ (pc = "eth_done" /\ ~empty(transactions) /\ DOMAIN eth_graph.weight = {})
          => eth_graph_div.type = "Div"
    /\ (pc = "erc20_done" /\ ~empty(erc20_transactions) /\ DOMAIN erc20_graph.weight = {})
          => erc20_graph_div.type = "Div"

\* C9: no exception leaves update_graphs.
C9_NoException == pc # "raised"

\* C10: when the request returns, every native value has been divided by
\* 10^18 once on the graph path and once on the time-series path: each edge
\* weight times 10^18 is the raw value of a transaction of that pair, each
\* 'value' cell times 10^18 is its raw value, and the last point of the
\* series times 10^18 is the sum of the raw values.
C10_DividedOnce ==
    (ReturnedThree /\ ~empty(transactions)) =>
        /\ \A e \in DOMAIN eth_graph.weight :
              \E i \in 1..Len(KeptEth) :
                 /\ {KeptEth[i].from, KeptEth[i].to} = e
                 /\ Times18(eth_graph.weight[e]) = RawValue(i)
        /\ Len(transactions.rows) = Len(KeptEth)
        /\ \A i \in 1..Len(KeptEth) :
              /\ transactions.rows[i].value.t = "float"
              /\ Times18(transactions.rows[i].value.n) = RawValue(i)
        /\ LET y == out[3].figure.y
           IN  /\ y # <<>>
               /\ Times18(y[Len(y)]) = RawSum(Len(KeptEth))

\* scenario A: one transaction A->B of 10^18 at 1000 gives the edge A-B of
\* weight 1.0 and the one point (1000, 1.0)
C10_Witness ==
    /\ ReturnedThree
    /\ eth_response.result = <<NativeRecord("0xA", "0xB", Wei("1"), 1000)>>
    /\ DOMAIN eth_graph.weight = {{"0xA", "0xB"}}
    /\ eth_graph.weight[{"0xA", "0xB"}] = [m |-> 1, x |-> 0]
    /\ out[3].figure.x = <<to_datetime(1000)>>
    /\ out[3].figure.y = <<[m |-> 1, x |-> 0]>>

====
